---- MODULE Spec2Model ----
(***************************************************************************)
(* Model of the Imprisoned text-adventure engine (imprisoned_env.py):      *)
(* ImprisonedEnv.__init__, get_available_actions, step and reset, and of   *)
(* its console driver (game.py: play_game), over a bounded family of game  *)
(* configurations (the parsed YAML document).                              *)
(*                                                                         *)
(* Python values are modelled as follows.                                  *)
(*   dict with string keys, order irrelevant  -> TLA+ record / function    *)
(*   dict whose insertion order is observed   -> sequence of <<key,value>> *)
(*   list                                     -> sequence                  *)
(*   set                                      -> set                       *)
(*   None / missing                           -> NoValue                   *)
(*   random.choice / random.choices           -> the set of values the     *)
(*                                               draw can produce          *)
(*   a raised exception                       -> raised = its class name   *)
(***************************************************************************)
EXTENDS Integers, Sequences, FiniteSets, TLC

VARIABLES game_data, starting_states, current_state, terminal, inventory,
          op, action_index, returned, raised, trace, granted, driver

vars == <<game_data, starting_states, current_state, terminal, inventory,
          op, action_index, returned, raised, trace, granted, driver>>

(***************************************************************************)
(* Bounds of the model.                                                    *)
(***************************************************************************)
MaxWeight == 1
MaxIndex == 3
MaxRatio == 3

(***************************************************************************)
(* Python helpers.                                                         *)
(***************************************************************************)
NoValue == "<none>"

EmptyDict == << >>

Range(seq) == {seq[i] : i \in 1..Len(seq)}

\* dict.get(key, default)
Get(d, key, default) == IF key \in DOMAIN d THEN d[key] ELSE default

\* keys of an insertion-ordered dict, in order
Keys(items) == [i \in 1..Len(items) |-> items[i][1]]

\* values of an insertion-ordered dict, in order
Values(items) == [i \in 1..Len(items) |-> items[i][2]]

\* items[key] of an insertion-ordered dict (keys are unique)
Lookup(items, key) == items[CHOOSE i \in 1..Len(items) : items[i][1] = key][2]

\* Python truthiness of an optional string: None and "" are falsy
Falsy(v) == v = NoValue \/ v = ""

\* seq[index] with Python's negative indexing; the position is 1-based,
\* 0 stands for IndexError
ListIndex(n, index) ==
  IF index >= 0 /\ index < n THEN index + 1
  ELSE IF index < 0 /\ index >= -n THEN n + index + 1
  ELSE 0

\* random.choice(seq): any element of a non-empty list
random_choice(seq) == Range(seq)

\* itertools.accumulate(weights)
RECURSIVE accumulate(_)
accumulate(weights) ==
  IF weights = << >> THEN << >>
  ELSE LET front == accumulate(SubSeq(weights, 1, Len(weights) - 1))
       IN  Append(front, (IF front = << >> THEN 0 ELSE front[Len(front)])
                          + weights[Len(weights)])

\* variant of bisect: bisect_left
bisect_left(a, x, lo, hi) ==
  lo + Cardinality({i \in (lo + 1)..hi : a[i] < x})

\* bisect.bisect_right(a, x, lo, hi) on a sorted list, 0-based insertion point
bisect(a, x, lo, hi) ==
  lo + Cardinality({i \in (lo + 1)..hi : a[i] <= x})

\* variant of Draws: random() may return 1
Draws_inclusive(total) == 0..total

\* The values of floor(random() * total) for random() in [0, 1)
Draws(total) == 0..(total - 1)

\* random.choices(population, weights)[0] for the draw u = floor(random() * total)
choices_pick(population, weights, u) ==
  LET cum_weights == accumulate(weights)
      hi == Len(population) - 1
  IN  population[bisect(cum_weights, u, 0, hi) + 1]

\* random.choices(population, weights)[0]: the set of outcomes, each either
\* [value |-> v] or [error |-> class].  An empty population fails on
\* cum_weights[-1]; a total that is not positive raises ValueError ("Total of
\* weights must be greater than zero").
random_choices(population, weights) ==
  IF Len(population) = 0 THEN {[error |-> "IndexError"]}
  ELSE LET cum_weights == accumulate(weights)
           total == cum_weights[Len(cum_weights)]
       IN  IF total <= 0
           THEN {[error |-> "ValueError"]}
           ELSE {[value |-> choices_pick(population, weights, u)] : u \in Draws(total)}

(***************************************************************************)
(* The configuration family: the parsed YAML document (game_data).         *)
(***************************************************************************)
Weights == 0..MaxWeight

\* targets of cell's "wait" action; "void" is defined nowhere
WaitTargets == {"pit", "void", "vault"}

\* the two shapes of the state "pit": a losing terminal state, or a state
\* without actions that is not terminal
PitShapes == {[terminal |-> TRUE],
              [actions |-> << >>]}

\* the two shapes of "escape_success": terminal, or non-terminal with a
\* self-loop action
EscapeShapes == {[terminal |-> TRUE],
                 [description |-> "Free.",
                  actions |-> << <<"celebrate", [description |-> "Cheer."]>> >>]}

StartingLists == {<<"void", "cell", "hall">>, <<"pit", "escape_success", "cell">>,
                  <<"void">>}

StateGraph(wait_target, w, pit, escape) ==
  [cell |->
     [description |-> "A cell.",
      terminal |-> FALSE,
      actions |->
        << <<"search", [description |-> "Search.", grants |-> "key"]>>,
           <<"door", [conditions |-> [requires |-> "key"], next_state |-> "hall"]>>,
           <<"wait", [next_state |-> wait_target]>> >>],
   hall |->
     [actions |->
        << <<"run", [probabilities |->
                       << <<"escape_success", w[1]>>, <<"pit", w[2]>>,
                          <<"void", w[3]>> >>]>>,
           <<"back", [grants |-> "map", next_state |-> "vault"]>> >>],
   vault |->
     [actions |->
        << <<"open", [conditions |-> [requires |-> "key"],
                      next_state |-> "escape_success"]>>,
           <<"read", [conditions |-> [requires |-> "map"], grants |-> "map",
                      next_state |-> "cell"]>> >>],
   pit |-> pit,
   escape_success |-> escape]

GameData ==
  {[states |-> StateGraph(t, w, p, e), starting_states |-> s] :
     t \in WaitTargets, w \in [1..3 -> Weights], p \in PitShapes,
     e \in EscapeShapes, s \in StartingLists}

\* every StateID a configuration mentions, defined or not
StateIDs == {"cell", "hall", "vault", "pit", "escape_success", "void"}

ItemIDs == {"key", "map"}

Indices == (-MaxIndex - 1)..MaxIndex

(***************************************************************************)
(* The engine.                                                             *)
(***************************************************************************)
\* self.states
states == Get(game_data, "states", EmptyDict)

\* the fields of the engine object
Self == [states |-> states, starting_states |-> starting_states,
         current_state |-> current_state, terminal |-> terminal,
         inventory |-> inventory]

\* variant of valid_starting_states: the supplied list is taken as it is
valid_starting_states_unfiltered(supplied, graph) == supplied

\* __init__: [s for s in self.starting_states if s in self.states]
valid_starting_states(supplied, graph) ==
  SelectSeq(supplied, LAMBDA s : s \in DOMAIN graph)

\* variant of is_available: the inventory condition is not looked at
is_available_ungated(details, inv) == TRUE

\* get_available_actions: the test of one action
is_available(details, inv) ==
  LET conditions == Get(details, "conditions", EmptyDict)
      required_item == Get(conditions, "requires", NoValue)
  IN  Falsy(required_item) \/ required_item \in inv

\* variant of available_loop: each available action is put in front
RECURSIVE available_loop_front(_, _, _)
available_loop_front(items, inv, available_actions) ==
  IF items = << >> THEN available_actions
  ELSE available_loop_front(Tail(items), inv,
         IF Falsy(Get(Get(Head(items)[2], "conditions", EmptyDict), "requires", NoValue))
            \/ Get(Get(Head(items)[2], "conditions", EmptyDict), "requires", NoValue) \in inv
         THEN <<Head(items)[1]>> \o available_actions
         ELSE available_actions)

\* get_available_actions: the loop over actions.items()
RECURSIVE available_loop(_, _, _)
available_loop(items, inv, available_actions) ==
  IF items = << >> THEN available_actions
  ELSE LET action == Head(items)[1]
           details == Head(items)[2]
       IN  available_loop(Tail(items), inv,
             IF is_available(details, inv)
             THEN Append(available_actions, action)
             ELSE available_actions)

get_available_actions(graph, state, inv) ==
  IF state \notin DOMAIN graph THEN << >>
  ELSE available_loop(Get(graph[state], "actions", << >>), inv, << >>)

\* the local variables of a call, kept for inspection
Locals(self, path, actions, chosen_action, new_state, fallback, committed, recovered, draws) ==
  [path |-> path, actions |-> actions, chosen_action |-> chosen_action,
   new_state |-> new_state, fallback |-> fallback, committed |-> committed,
   recovered |-> recovered, draws |-> draws,
   from_state |-> self.current_state, from_terminal |-> self.terminal,
   from_inventory |-> self.inventory]

\* variant of is_stuck: the check for an empty action list is missing
is_stuck_unchecked(actions) == FALSE

\* step: `if not actions`
is_stuck(actions) == actions = << >>

\* step: `if action_index >= len(actions)`
index_invalid(index, actions) == index >= Len(actions)

\* variant of add_grant: the granted item replaces the inventory
add_grant_replace(inv, action_data) ==
  IF "grants" \in DOMAIN action_data THEN {action_data["grants"]} ELSE inv

\* step: `if "grants" in action_data: self.inventory.add(action_data["grants"])`
add_grant(inv, action_data) ==
  IF "grants" \in DOMAIN action_data THEN inv \cup {action_data["grants"]}
  ELSE inv

\* variant of resolve_next_state: an action without next_state has no default
resolve_next_state_no_default(self, action_data) ==
  IF "probabilities" \in DOMAIN action_data
  THEN random_choices(Keys(action_data["probabilities"]),
                      Values(action_data["probabilities"]))
  ELSE {[value |-> Get(action_data, "next_state", NoValue)]}

\* step: "Determine the next state"; the set of outcomes of the draw
resolve_next_state(self, action_data) ==
  IF "probabilities" \in DOMAIN action_data
  THEN LET next_states == Keys(action_data["probabilities"])
           probabilities == Values(action_data["probabilities"])
       IN  random_choices(next_states, probabilities)
  ELSE {[value |-> Get(action_data, "next_state", self.current_state)]}

\* variant of ensure_exists: the resolved state is taken as it is
ensure_exists_unchecked(self, new_state) == {new_state}

\* step: "Ensure the new state exists"; the set of states it can yield
ensure_exists(self, new_state) ==
  IF new_state \notin DOMAIN self.states
  THEN random_choice(self.starting_states)
  ELSE {new_state}

\* variant of needs_recovery: the inventory of before the grant is used
needs_recovery_stale_inventory(self, state, inv, term) ==
  get_available_actions(self.states, state, self.inventory) = << >> /\ ~term

\* variant of needs_recovery: a stuck state is left as it is
needs_recovery_never(self, state, inv, term) == FALSE

\* step: `if not self.get_available_actions() and not self.terminal`
needs_recovery(self, state, inv, term) ==
  get_available_actions(self.states, state, inv) = << >> /\ ~term

\* variant of compute_reward: +1 only when escape_success is terminal
compute_reward_terminal_first(state, term) ==
  IF term THEN (IF state = "escape_success" THEN 1 ELSE -1) ELSE 0

\* step: the reward expression
compute_reward(state, term) ==
  IF state = "escape_success" THEN 1 ELSE (IF term THEN -1 ELSE 0)

\* step, lines 87-104: commit new_state, recover when stuck, compute the reward
commit(self, inv, actions, chosen_action, resolved, new_state) ==
  IF new_state \notin DOMAIN self.states
  THEN \* self.states[self.current_state] raises after current_state was set
       {[current_state |-> new_state, terminal |-> self.terminal,
         inventory |-> inv, returned |-> << >>, raised |-> "KeyError",
         trace |-> Locals(self, "raise", actions, chosen_action, resolved,
                          resolved # new_state, new_state, FALSE, 0)]}
  ELSE LET term == Get(self.states[new_state], "terminal", FALSE)
           recover == needs_recovery(self, new_state, inv, term)
           resting == IF recover THEN random_choice(self.starting_states)
                      ELSE {new_state}
       IN  {[current_state |-> final, terminal |-> term, inventory |-> inv,
             returned |-> <<final, compute_reward(final, term), term>>,
             raised |-> NoValue,
             trace |-> Locals(self, "valid", actions, chosen_action, resolved,
                              resolved # new_state, new_state, recover, 0)] :
              final \in resting}

\* step, lines 67-85: the chosen action, its grant and its next state
apply_action(self, actions, position) ==
  LET chosen_action == actions[position]
      action_data == Lookup(self.states[self.current_state]["actions"], chosen_action)
      inv == add_grant(self.inventory, action_data)
  IN  UNION {
        IF "error" \in DOMAIN draw
        THEN {[current_state |-> self.current_state, terminal |-> self.terminal,
               inventory |-> inv, returned |-> << >>, raised |-> draw.error,
               trace |-> Locals(self, "raise", actions, chosen_action, NoValue,
                                FALSE, NoValue, FALSE, 0)]}
        ELSE UNION {commit(self, inv, actions, chosen_action, draw.value, new_state) :
                      new_state \in ensure_exists(self, draw.value)}
        : draw \in resolve_next_state(self, action_data)}

\* an early return of step: nothing is changed
early_return(self, path, actions) ==
  {[current_state |-> self.current_state, terminal |-> self.terminal,
    inventory |-> self.inventory,
    returned |-> <<self.current_state, -1, TRUE>>, raised |-> NoValue,
    trace |-> Locals(self, path, actions, NoValue, NoValue, FALSE, NoValue,
                     FALSE, 0)]}

\* step(action_index): the set of outcomes of the call
step(self, index) ==
  LET actions == get_available_actions(self.states, self.current_state,
                                       self.inventory)
  IN  IF is_stuck(actions) THEN early_return(self, "stuck", actions)
      ELSE IF index_invalid(index, actions)
      THEN early_return(self, "invalid", actions)
      ELSE IF ListIndex(Len(actions), index) = 0
      THEN \* actions[action_index] raises IndexError
           {[current_state |-> self.current_state, terminal |-> self.terminal,
             inventory |-> self.inventory, returned |-> << >>,
             raised |-> "IndexError",
             trace |-> Locals(self, "raise", actions, NoValue, NoValue, FALSE,
                              NoValue, FALSE, 0)]}
      ELSE apply_action(self, actions, ListIndex(Len(actions), index))

\* the item granted by the action step(index) takes, or NoValue
granted_item(self, index) ==
  LET actions == get_available_actions(self.states, self.current_state,
                                       self.inventory)
      position == ListIndex(Len(actions), index)
  IN  IF is_stuck(actions) \/ index_invalid(index, actions) \/ position = 0
      THEN NoValue
      ELSE Get(Lookup(self.states[self.current_state]["actions"],
                      actions[position]), "grants", NoValue)

\* variant of reset: the inventory is not cleared
reset_keeps_inventory(self) ==
  {[current_state |-> first, terminal |-> FALSE, inventory |-> self.inventory,
    returned |-> <<first>>, raised |-> NoValue,
    trace |-> Locals(self, "reset", << >>, NoValue, NoValue, FALSE, NoValue,
                     FALSE, 1)] :
     first \in random_choice(self.starting_states)}

\* reset(): the set of outcomes of the call.  The first draw is returned when
\* it is a defined state; otherwise the loop redraws until one is (draws = 2
\* stands for two or more), and never returns when no draw can be.
reset(self) ==
  LET valid == {s \in random_choice(self.starting_states) : s \in DOMAIN self.states}
      outcome(state, draws, error) ==
        [current_state |-> state,
         terminal |-> IF error = NoValue THEN FALSE ELSE self.terminal,
         inventory |-> IF error = NoValue THEN {} ELSE self.inventory,
         returned |-> IF error = NoValue THEN <<state>> ELSE << >>,
         raised |-> error,
         trace |-> Locals(self, "reset", << >>, NoValue, NoValue, FALSE,
                          NoValue, FALSE, draws)]
  IN  UNION {
        IF first \in DOMAIN self.states THEN {outcome(first, 1, NoValue)}
        ELSE IF valid = {} THEN {outcome(first, 2, "<no return>")}
        ELSE {outcome(again, 2, NoValue) : again \in valid}
        : first \in random_choice(self.starting_states)}

\* spaces.Discrete(n): gymnasium asserts "n (count) have to be positive"
Discrete(n) == IF n > 0 THEN NoValue ELSE "AssertionError"

\* __init__, lines 31-32: the action space and the observation space
make_spaces(graph, state) ==
  IF Discrete(Len(get_available_actions(graph, state, {}))) # NoValue
  THEN Discrete(Len(get_available_actions(graph, state, {})))
  ELSE Discrete(Cardinality(DOMAIN graph))

\* __init__(config_path): the set of outcomes of the construction
construct(data) ==
  LET graph == Get(data, "states", EmptyDict)
      filtered == valid_starting_states(Get(data, "starting_states", << >>), graph)
      object(state, error) ==
        [game_data |-> data, starting_states |-> filtered,
         current_state |-> state, terminal |-> FALSE, inventory |-> {},
         raised |-> error]
  IN  IF filtered = << >> THEN {object(NoValue, "ValueError")}
      ELSE {object(state, make_spaces(graph, state)) : state \in random_choice(filtered)}

(***************************************************************************)
(* The state machine.                                                      *)
(***************************************************************************)
NoLocals ==
  [path |-> "init", actions |-> << >>, chosen_action |-> NoValue,
   new_state |-> NoValue, fallback |-> FALSE, committed |-> NoValue,
   recovered |-> FALSE, draws |-> 0, from_state |-> NoValue,
   from_terminal |-> FALSE, from_inventory |-> {}]

\* play_game has not started: its local variables are unbound
NoInput == [none |-> TRUE]

NoDriver ==
  [pc |-> "idle", event |-> "none", input |-> NoInput, observation |-> NoValue,
   reward |-> << >>, done |-> FALSE, actions |-> << >>, error |-> NoValue]

\* the state after ImprisonedEnv(config_path), for a document of the family
InitFrom(family) ==
  \E data \in family : \E obj \in construct(data) :
    /\ game_data = obj.game_data
    /\ starting_states = obj.starting_states
    /\ current_state = obj.current_state
    /\ terminal = obj.terminal
    /\ inventory = obj.inventory
    /\ raised = obj.raised
    /\ op = "__init__"
    /\ action_index = 0
    /\ returned = << >>
    /\ trace = NoLocals
    /\ granted = {}
    /\ driver = NoDriver

Init == InitFrom(GameData)

\* the construction succeeded: there is an engine to call
Constructed == ~(op = "__init__" /\ raised # NoValue)

Step ==
  /\ Constructed
  /\ \E index \in Indices : \E out \in step(Self, index) :
       /\ op' = "step"
       /\ action_index' = index
       /\ current_state' = out.current_state
       /\ terminal' = out.terminal
       /\ inventory' = out.inventory
       /\ returned' = out.returned
       /\ raised' = out.raised
       /\ trace' = out.trace
       /\ granted' = IF granted_item(Self, index) = NoValue THEN granted
                     ELSE granted \cup {granted_item(Self, index)}
  /\ UNCHANGED <<game_data, starting_states, driver>>

Reset ==
  /\ Constructed
  /\ \E out \in reset(Self) :
       /\ op' = "reset"
       /\ action_index' = 0
       /\ current_state' = out.current_state
       /\ terminal' = out.terminal
       /\ inventory' = out.inventory
       /\ returned' = out.returned
       /\ raised' = out.raised
       /\ trace' = out.trace
       /\ granted' = {}
  /\ UNCHANGED <<game_data, starting_states, driver>>

Next == Step \/ Reset

\* variant of query: the call uses up the inventory
query_consumes(self) ==
  [current_state |-> self.current_state, terminal |-> self.terminal,
   inventory |-> {},
   returned |-> get_available_actions(self.states, self.current_state,
                                      self.inventory),
   raised |-> NoValue,
   trace |-> Locals(self, "query", << >>, NoValue, NoValue, FALSE, NoValue,
                    FALSE, 0)]

\* a call of get_available_actions(): its outcome
query(self) ==
  [current_state |-> self.current_state, terminal |-> self.terminal,
   inventory |-> self.inventory,
   returned |-> get_available_actions(self.states, self.current_state,
                                      self.inventory),
   raised |-> NoValue,
   trace |-> Locals(self, "query", << >>, NoValue, NoValue, FALSE, NoValue,
                    FALSE, 0)]

GetAvailableActions ==
  /\ Constructed
  /\ op' = "get_available_actions"
  /\ action_index' = 0
  /\ current_state' = query(Self).current_state
  /\ terminal' = query(Self).terminal
  /\ inventory' = query(Self).inventory
  /\ returned' = query(Self).returned
  /\ raised' = query(Self).raised
  /\ trace' = query(Self).trace
  /\ UNCHANGED <<game_data, starting_states, granted, driver>>

\* the documents in which every weight is 1
QueryData ==
  {[states |-> StateGraph(t, [i \in 1..3 |-> 1], p, e), starting_states |-> s] :
     t \in WaitTargets, p \in PitShapes, e \in EscapeShapes, s \in StartingLists}

InitQuery == InitFrom(QueryData)

NextQuery == Step \/ Reset \/ GetAvailableActions

\* the engine with get_available_actions as a call of its own
SpecQuery == InitQuery /\ [][NextQuery]_vars

\* the documents that vary the weights of "run" up to MaxRatio
WeightedData ==
  {[states |-> StateGraph("pit", w, [terminal |-> TRUE], [terminal |-> TRUE]),
    starting_states |-> <<"hall", "cell">>] :
     w \in [1..3 -> 0..MaxRatio]}

InitWeighted == InitFrom(WeightedData)

\* the engine over the documents of WeightedData
SpecWeighted == InitWeighted /\ [][Next]_vars

Spec == Init /\ [][Next]_vars

(***************************************************************************)
(* The driver: play_game of game.py.  pc is the place in the function:     *)
(* "idle" before env.reset(), "loop" at the head of the while loop,        *)
(* "prompt" at input(), "report" after the loop, "end" at the return,      *)
(* "crash" at an exception that leaves play_game.  A local variable that   *)
(* is not bound yet is NoValue (observation) or << >> (reward).            *)
(***************************************************************************)
\* what the player can type: a numeral, or a text int() rejects
Inputs ==
  {[error |-> "ValueError"]} \cup {[value |-> n] : n \in (-MaxIndex)..(MaxIndex + 1)}

\* variant of in_range: the lower bound is not checked
in_range_upper_only(choice, actions) == choice < Len(actions)

\* play_game: `0 <= choice < len(actions)`
in_range(choice, actions) == 0 <= choice /\ choice < Len(actions)

\* the engine fields and the record of the call, after a call with outcome out
EngineCall(name, index, out, grants) ==
  /\ op' = name
  /\ action_index' = index
  /\ current_state' = out.current_state
  /\ terminal' = out.terminal
  /\ inventory' = out.inventory
  /\ returned' = out.returned
  /\ raised' = out.raised
  /\ trace' = out.trace
  /\ granted' = grants

\* play_game lines 9-12: observation = env.reset(); env.render(); done = False
DriverReset ==
  /\ Constructed
  /\ driver.pc = "idle"
  /\ \E out \in reset(Self) :
       /\ EngineCall("reset", 0, out, {})
       /\ driver' = [driver EXCEPT
            !.pc = IF out.raised = NoValue THEN "loop" ELSE "crash",
            !.event = "reset",
            !.observation = IF out.raised = NoValue THEN out.returned[1] ELSE NoValue,
            !.done = FALSE,
            !.error = out.raised]
  /\ UNCHANGED <<game_data, starting_states>>

\* play_game lines 13-23: the loop test, the list of actions, the break
DriverList ==
  /\ driver.pc = "loop"
  /\ IF driver.done
     THEN /\ driver' = [driver EXCEPT !.pc = "report", !.event = "exit",
                                      !.input = NoInput]
          /\ UNCHANGED <<current_state, terminal, inventory, op, action_index,
                         returned, raised, trace, granted>>
     ELSE /\ EngineCall("get_available_actions", 0, query(Self), granted)
          /\ driver' = [driver EXCEPT
               !.pc = IF query(Self).returned = << >> THEN "report" ELSE "prompt",
               !.event = IF query(Self).returned = << >> THEN "break" ELSE "list",
               !.input = NoInput,
               !.actions = query(Self).returned]
  /\ UNCHANGED <<game_data, starting_states>>

\* play_game lines 25-34: the choice, the call of step, the two refusals
DriverChoose ==
  /\ driver.pc = "prompt"
  /\ \E input \in Inputs :
       IF "value" \in DOMAIN input /\ in_range(input.value - 1, driver.actions)
       THEN \E out \in step(Self, input.value - 1) :
              /\ EngineCall("step", input.value - 1, out,
                   IF granted_item(Self, input.value - 1) = NoValue THEN granted
                   ELSE granted \cup {granted_item(Self, input.value - 1)})
              /\ driver' =
                   IF out.raised = NoValue
                   THEN [driver EXCEPT !.pc = "loop", !.event = "step",
                                       !.input = input,
                                       !.observation = out.returned[1],
                                       !.reward = <<out.returned[2]>>,
                                       !.done = out.returned[3]]
                   ELSE IF out.raised = "ValueError"
                   THEN \* caught by `except ValueError`
                        [driver EXCEPT !.pc = "loop", !.event = "step",
                                       !.input = input]
                   ELSE [driver EXCEPT !.pc = "crash", !.event = "step",
                                       !.input = input, !.error = out.raised]
       ELSE /\ driver' = [driver EXCEPT !.pc = "loop", !.event = "invalid",
                                        !.input = input]
            /\ UNCHANGED <<current_state, terminal, inventory, op, action_index,
                           returned, raised, trace, granted>>
  /\ UNCHANGED <<game_data, starting_states>>

\* play_game lines 36-43: the game-over report
DriverReport ==
  /\ driver.pc = "report"
  /\ driver' =
       IF driver.observation = "escape_success"
       THEN [driver EXCEPT !.pc = "end", !.event = "report"]
       ELSE IF driver.reward = << >>
       THEN \* `elif reward == -1` reads a local that was never assigned
            [driver EXCEPT !.pc = "crash", !.event = "report",
                           !.error = "UnboundLocalError"]
       ELSE [driver EXCEPT !.pc = "end", !.event = "report"]
  /\ UNCHANGED <<game_data, starting_states, current_state, terminal, inventory,
                 op, action_index, returned, raised, trace, granted>>

NextDriver == DriverReset \/ DriverList \/ DriverChoose \/ DriverReport

\* play_game on an engine of the configuration family
SpecDriver == Init /\ [][NextDriver]_vars

(***************************************************************************)
(* Vocabulary of the properties.                                           *)
(***************************************************************************)
\* the terminal flag a state's definition carries (false when it has none)
DefinedTerminal(state) ==
  IF "terminal" \in DOMAIN states[state] THEN states[state].terminal ELSE FALSE

\* the actions a state's definition lists, in defining order
DefinedActions(state) ==
  IF "actions" \in DOMAIN states[state] THEN states[state].actions ELSE << >>

\* conditions.requires of an action definition, NoValue when absent
Requires(details) ==
  IF "conditions" \in DOMAIN details /\ "requires" \in DOMAIN details.conditions
  THEN details.conditions.requires
  ELSE NoValue

\* a state with zero actions and terminal false
Dead(state) ==
  state \in DOMAIN states /\ DefinedActions(state) = << >> /\ ~DefinedTerminal(state)

\* the last call was step, and it applied an action at an index within bounds
ValidStep ==
  /\ op = "step"
  /\ trace.path = "valid"
  /\ action_index >= 0
  /\ action_index < Len(trace.actions)

\* what getAvailableActions() returns now
Available == get_available_actions(states, current_state, inventory)

(***************************************************************************)
(* C1.  Terminal reward contract.                                          *)
(***************************************************************************)
\* C1 as stated: after a step that applies a valid action, the reward is +1 if
\* the returned state is escape_success with a terminal definition, -1 if it is
\* any other state with a terminal definition, 0 if its definition is not
\* terminal.
C1_RewardByDefinition ==
  ValidStep =>
    returned[2] = (IF DefinedTerminal(returned[1])
                   THEN (IF returned[1] = "escape_success" THEN 1 ELSE -1)
                   ELSE 0)

\* C1 amended: after a step that applies a valid action, the reward is +1 if
\* the returned state is escape_success, whether or not its definition is
\* terminal; otherwise it is -1 if the state the step committed (the returned
\* state unless stuck-state recovery relocated the engine) has a terminal
\* definition, and 0 if it has not.
C1_RewardByCommittedState ==
  ValidStep =>
    /\ returned[2] = (IF returned[1] = "escape_success" THEN 1
                      ELSE IF DefinedTerminal(trace.committed) THEN -1 ELSE 0)
    /\ ~trace.recovered => trace.committed = returned[1]

\* a valid step lands on a terminal escape_success and earns +1
C1_Witness ==
  /\ ValidStep
  /\ returned[1] = "escape_success"
  /\ DefinedTerminal("escape_success")
  /\ returned[2] = 1

(***************************************************************************)
(* C2.  Recovery from a state without actions.                             *)
(***************************************************************************)
\* C2 as stated: after any call of step, current_state is never a state with
\* zero actions and terminal false.
C2_NeverRestsDead == op = "step" => ~Dead(current_state)

\* C2 amended: after any call of step, current_state is never a state with
\* zero actions and terminal false unless that state is itself one of the
\* StartingStates.
C2_RestsDeadOnlyAtStart ==
  (op = "step" /\ Dead(current_state)) => current_state \in Range(starting_states)

\* a step committed a state with zero actions and terminal false, and the
\* engine relocated to a starting state that has actions
C2_Witness ==
  /\ op = "step"
  /\ trace.recovered
  /\ Dead(trace.committed)
  /\ ~Dead(current_state)
  /\ current_state \in Range(starting_states)

(***************************************************************************)
(* C3.  Index out of bounds.                                               *)
(***************************************************************************)
\* C3: when the available actions are not empty, step with an index outside
\* 0 .. len-1, too large or negative, returns reward -1 and terminal true and
\* leaves current_state unchanged.
C3_OutOfBoundsPenalized ==
  (/\ op = "step"
   /\ trace.actions # << >>
   /\ (action_index < 0 \/ action_index >= Len(trace.actions)))
  => (/\ raised = NoValue
      /\ returned = <<trace.from_state, -1, TRUE>>
      /\ current_state = trace.from_state)

(***************************************************************************)
(* C4.  Fallback for a next state that does not exist.                     *)
(***************************************************************************)
\* C4: after a step whose action resolves to a StateID absent from the state
\* graph, current_state is one of the validated starting states, is present
\* in the state graph, and is not the nonexistent id.
C4_FallbackLandsOnStart ==
  (/\ op = "step"
   /\ trace.new_state # NoValue
   /\ trace.new_state \notin DOMAIN states)
  => (/\ raised = NoValue
      /\ current_state \in Range(starting_states)
      /\ current_state \in Range(game_data.starting_states)
      /\ current_state \in DOMAIN states
      /\ current_state # trace.new_state)

\* the probabilities of "run" resolved to the undefined "void" and the engine
\* fell back to a starting state
C4_Witness ==
  /\ op = "step"
  /\ trace.chosen_action = "run"
  /\ trace.new_state = "void"
  /\ trace.fallback
  /\ current_state \in Range(starting_states)

(***************************************************************************)
(* C5.  step never raises.                                                 *)
(***************************************************************************)
\* C5: every call of step returns a (state, reward, terminal) triple and
\* raises no error.
C5_StepNeverRaises ==
  op = "step" => (raised = NoValue /\ Len(returned) = 3)

(***************************************************************************)
(* C6.  Conditional gating.                                                *)
(***************************************************************************)
\* C6: within an episode, an action of the current state that requires item X
\* is absent from the available actions as long as no step since the last
\* reset has taken an action granting X, and present once one has.
C6_GatedUntilGranted ==
  Constructed =>
    \A i \in 1..Len(DefinedActions(current_state)) :
      LET action == DefinedActions(current_state)[i]
      IN  Requires(action[2]) # NoValue =>
            (action[1] \in Range(Available) <=> Requires(action[2]) \in granted)

\* "door" requires the key: a step granted it and the door is now offered
C6_Witness ==
  /\ op = "step"
  /\ current_state = "cell"
  /\ "key" \in granted
  /\ "key" \notin trace.from_inventory
  /\ "door" \in Range(Available)

(***************************************************************************)
(* C7.  getAvailableActions.                                               *)
(***************************************************************************)
\* the positions of the actions of a state whose requirement is absent or held
Eligible(state) ==
  {i \in 1..Len(DefinedActions(state)) :
     \/ Requires(DefinedActions(state)[i][2]) = NoValue
     \/ Requires(DefinedActions(state)[i][2]) \in inventory}

\* the k-th smallest eligible position
EligibleAt(state, k) ==
  CHOOSE i \in Eligible(state) : Cardinality({j \in Eligible(state) : j < i}) = k - 1

\* C7: with the inventory of any reachable engine state, getAvailableActions
\* returns exactly the ActionIDs of the current state whose requirement is
\* absent or held, in defining order, and the empty sequence for a
\* current_state that is not in the state graph.
C7_AvailableActionsExact ==
  Constructed =>
    \A state \in StateIDs :
      LET result == get_available_actions(states, state, inventory)
      IN  IF state \notin DOMAIN states THEN result = << >>
          ELSE /\ Len(result) = Cardinality(Eligible(state))
               /\ \A k \in 1..Len(result) :
                    result[k] = DefinedActions(state)[EligibleAt(state, k)][1]

\* in the vault with the map but not the key, "open" is hidden and "read" is
\* offered
C7_Witness ==
  /\ Constructed
  /\ current_state = "vault"
  /\ inventory = {"map"}
  /\ Available = <<"read">>

(***************************************************************************)
(* C8.  Stuck state.                                                       *)
(***************************************************************************)
\* C8: when getAvailableActions() is empty, step returns
\* (current_state, -1, true) for every index and changes neither
\* current_state nor the inventory.
C8_StuckReturn ==
  [][(op' = "step" /\ Available = << >>)
       => (/\ raised' = NoValue
           /\ returned' = <<current_state, -1, TRUE>>
           /\ current_state' = current_state
           /\ inventory' = inventory)]_vars

\* step was called with a negative index while no action was available
C8_Witness ==
  /\ op = "step"
  /\ trace.path = "stuck"
  /\ action_index < 0
  /\ returned = <<current_state, -1, TRUE>>

(***************************************************************************)
(* C9.  The inventory only grows.                                          *)
(***************************************************************************)
\* C9: no step removes an item from the inventory, a step granting an item
\* already held leaves the inventory as it is, and a non-empty inventory
\* becomes empty only through reset.
C9_InventoryMonotone ==
  [][/\ op' = "step" => inventory \subseteq inventory'
     /\ (op' = "step" /\ granted_item(Self, action_index') \in inventory)
          => inventory' = inventory
     /\ (inventory # {} /\ inventory' = {}) => op' = "reset"]_vars

\* a step granted the map while the key was held, and both are held
C9_Witness ==
  /\ op = "step"
  /\ trace.chosen_action = "back"
  /\ trace.from_inventory = {"key"}
  /\ inventory = {"key", "map"}

(***************************************************************************)
(* C10.  reset.                                                            *)
(***************************************************************************)
\* C10: from every reachable engine state reset returns after a single draw,
\* with current_state a member of the starting states and of the state graph,
\* an empty inventory and terminal false.
C10_ResetFirstDraw ==
  op = "reset" =>
    /\ raised = NoValue
    /\ trace.draws = 1
    /\ returned = <<current_state>>
    /\ current_state \in Range(starting_states)
    /\ current_state \in DOMAIN states
    /\ inventory = {}
    /\ terminal = FALSE

\* reset was called after a terminal step with items in the inventory
C10_Witness ==
  /\ op = "reset"
  /\ trace.from_terminal
  /\ trace.from_inventory # {}
  /\ inventory = {}
  /\ ~terminal

(***************************************************************************)
(* C11.  Construction.                                                     *)
(***************************************************************************)
\* the supplied starting states that exist in the state graph, order kept
SuppliedValid ==
  SelectSeq(game_data.starting_states, LAMBDA s : s \in DOMAIN states)

\* C11: construction fails if and only if no supplied starting state exists in
\* the state graph; when it succeeds, starting_states holds exactly the
\* supplied entries that exist, current_state is one of them, the inventory is
\* empty and terminal is false.
C11_ConstructionContract ==
  op = "__init__" =>
    /\ raised # NoValue <=> SuppliedValid = << >>
    /\ raised = NoValue =>
         /\ starting_states = SuppliedValid
         /\ current_state \in Range(SuppliedValid)
         /\ inventory = {}
         /\ terminal = FALSE

(***************************************************************************)
(* C12.  Available actions right after reset.                              *)
(***************************************************************************)
\* C12: whatever steps came before, the actions available right after reset
\* are actions without a requires condition.
C12_AfterResetUngated ==
  (op = "reset" /\ raised = NoValue) =>
    \A i \in 1..Len(DefinedActions(current_state)) :
      DefinedActions(current_state)[i][1] \in Range(Available)
        => Requires(DefinedActions(current_state)[i][2]) = NoValue

\* reset was called with the key held and landed in the cell: the door, which
\* requires the key, is not offered
C12_Witness ==
  /\ op = "reset"
  /\ "key" \in trace.from_inventory
  /\ current_state = "cell"
  /\ Available = <<"search", "wait">>

(***************************************************************************)
(* C15.  Stuck-state recovery.                                             *)
(***************************************************************************)
\* C15: in a valid step, recovery fires if and only if the committed state has
\* no available action under the inventory that already holds this step's
\* grant and its terminal flag is false; when it fires current_state becomes a
\* starting state, and when it does not current_state stays the committed
\* state.
C15_RecoveryExactlyWhenStuck ==
  (op = "step" /\ trace.path = "valid") =>
    /\ trace.recovered <=>
         (/\ get_available_actions(states, trace.committed, inventory) = << >>
          /\ ~DefinedTerminal(trace.committed))
    /\ trace.recovered => current_state \in Range(starting_states)
    /\ ~trace.recovered => current_state = trace.committed

\* "back" granted the map and led to the vault, whose "read" requires the map:
\* with the grant counted the vault is not stuck and no recovery fired
C15_Witness ==
  /\ op = "step"
  /\ trace.path = "valid"
  /\ trace.chosen_action = "back"
  /\ trace.from_inventory = {}
  /\ ~trace.recovered
  /\ current_state = "vault"

(***************************************************************************)
(* C16.  Deterministic transition.                                         *)
(***************************************************************************)
\* the definition of the action the last step chose
ChosenData == Lookup(DefinedActions(trace.from_state), trace.chosen_action)

\* the target of the chosen action: its next_state, or the state it was taken in
ChosenTarget ==
  IF "next_state" \in DOMAIN ChosenData THEN ChosenData.next_state
  ELSE trace.from_state

\* C16: a valid action without probabilities whose target exists and is
\* terminal or has an available action makes that target the current state
\* and returns its terminal flag; a self-loop leaves current_state unchanged.
C16_DeterministicTarget ==
  (/\ ValidStep
   /\ "probabilities" \notin DOMAIN ChosenData
   /\ ChosenTarget \in DOMAIN states
   /\ \/ DefinedTerminal(ChosenTarget)
      \/ get_available_actions(states, ChosenTarget, inventory) # << >>)
  => (/\ current_state = ChosenTarget
      /\ returned[1] = ChosenTarget
      /\ returned[3] = DefinedTerminal(ChosenTarget)
      /\ terminal = DefinedTerminal(ChosenTarget))

\* "search" has no next_state: the engine stayed in the cell
C16_Witness ==
  /\ ValidStep
  /\ trace.chosen_action = "search"
  /\ trace.from_state = "cell"
  /\ current_state = "cell"
  /\ returned = <<"cell", 0, FALSE>>

(***************************************************************************)
(* C17.  Weighted choice never picks a weight of zero.                     *)
(***************************************************************************)
\* C17: for a valid action with probabilities, the state resolved before the
\* fallback check is a key of the mapping whose weight is strictly positive.
C17_PositiveWeightOnly ==
  (/\ op = "step"
   /\ trace.chosen_action # NoValue
   /\ "probabilities" \in DOMAIN ChosenData
   /\ trace.new_state # NoValue)
  => \E i \in 1..Len(ChosenData.probabilities) :
       /\ ChosenData.probabilities[i][1] = trace.new_state
       /\ ChosenData.probabilities[i][2] > 0

\* "run" resolved to the pit while escape_success, listed before it, had
\* weight zero
C17_Witness ==
  /\ op = "step"
  /\ trace.chosen_action = "run"
  /\ trace.new_state = "pit"
  /\ ChosenData.probabilities[1][2] = 0
  /\ ChosenData.probabilities[2][2] > 0

(***************************************************************************)
(* C13.  getAvailableActions is a pure query.                              *)
(***************************************************************************)
\* C13: a call of getAvailableActions changes neither current_state, the
\* inventory nor the terminal field, and a second call right after it returns
\* the same sequence.
C13_QueryIsPure ==
  [][op' = "get_available_actions"
       => (/\ current_state' = current_state
           /\ inventory' = inventory
           /\ terminal' = terminal
           /\ op = "get_available_actions" => returned' = returned)]_vars

\* the query was called in the cell with the key held
C13_Witness ==
  /\ op = "get_available_actions"
  /\ current_state = "cell"
  /\ inventory = {"key"}
  /\ returned = <<"search", "door", "wait">>

(***************************************************************************)
(* C14.  Weighted branching.                                               *)
(***************************************************************************)
\* the probabilities of the action "run" of the hall
RunProbabilities == Lookup(DefinedActions("hall"), "run").probabilities

\* the sum of the listed weights
RunTotal == accumulate(Values(RunProbabilities))[Len(RunProbabilities)]

\* the draws floor(random() * total) for which "run" resolves to a candidate
DrawsSelecting(candidate) ==
  {u \in Draws(RunTotal) :
     choices_pick(Keys(RunProbabilities), Values(RunProbabilities), u) = candidate}

C19_ReturnedTerminalIsStored ==
  (op = "step" /\ raised = NoValue) => returned[3] = terminal

(***************************************************************************)
(* C18.  The driver loop.                                                  *)
(***************************************************************************)
\* this transition of play_game calls step
StepCalled == driver.pc = "prompt" /\ driver'.event = "step"

\* the choice the player typed is out of range or not a number
BadInput(input) ==
  \/ "value" \notin DOMAIN input
  \/ input.value - 1 < 0
  \/ input.value - 1 >= Len(Available)

\* C18: the driver calls step only with an index within the bounds of the
\* available actions; once step has returned terminal=true, or once no action
\* is available, it calls step no more; an out-of-range or non-numeric choice
\* causes no call of step and no change of the engine.
C18_DriverLoop ==
  [][/\ StepCalled =>
          /\ action_index' >= 0
          /\ action_index' < Len(Available)
          /\ ~driver.done
          /\ raised' = NoValue => driver'.done = returned'[3]
     /\ driver.done => (driver'.done /\ ~StepCalled /\ driver'.pc # "prompt")
     /\ (driver.pc = "loop" /\ Available = << >>) => driver'.pc = "report"
     /\ driver.pc \in {"report", "end", "crash"} =>
          (~StepCalled /\ driver'.pc \in {"report", "end", "crash"})
     /\ (driver.pc = "prompt" /\ BadInput(driver'.input)) =>
          /\ driver'.event = "invalid"
          /\ UNCHANGED <<current_state, terminal, inventory, op, returned,
                         raised, trace, granted>>]_vars

\* the driver called step with an index in bounds, step returned terminal=true
\* and the loop was left for the report
C18_Witness ==
  /\ driver.pc = "report"
  /\ driver.event = "exit"
  /\ driver.done
  /\ op = "step"
  /\ action_index >= 0
  /\ action_index < Len(trace.actions)
  /\ returned[3]

(***************************************************************************)
(* C20.  The game-over report.                                             *)
(***************************************************************************)
\* C20: on every path by which the loop ends, the report runs to completion
\* with the observation and the reward it reads already defined.
C20_ReportCompletes ==
  /\ driver.pc = "report" =>
       /\ driver.observation # NoValue
       /\ driver.observation # "escape_success" => driver.reward # << >>
  /\ driver.event = "report" => driver.error = NoValue

====
